---- MODULE Spec2Model ----
(***************************************************************************)
(* A model of src/app.py (Edge TTS text-to-speech front end): the SRT      *)
(* codec (format_time, time_to_ms, parse_srt_content and the subtitle      *)
(* writer), the speaker-text parser, the phrase segmenter and the two      *)
(* conversion handlers text_to_speech and multi_speaker_tts.               *)
(*                                                                         *)
(* Text is modelled as a sequence of one-character strings, so that        *)
(* formatting, splitting and pattern matching are computed on characters.  *)
(***************************************************************************)
EXTENDS Integers, Sequences, FiniteSets, TLC

VARIABLES
    \* format_time / time_to_ms exercised on one value
    tpc, milliseconds, time_str, ms_back,
    \* the subtitle writer followed by parse_srt_content
    spc, timing_data, srt_text, parsed,
    \* parse_multi_speaker_text on one text
    kpc, speaker_text, speaker_segments,
    \* one call of text_to_speech: its arguments, locals, files and result
    tts,
    \* one call of multi_speaker_interface / multi_speaker_tts, likewise
    mst,
    \* both copies of the phrase segmenter run on the same word boundaries
    gpc, events, single_phrases, multi_phrases

timeVars == <<tpc, milliseconds, time_str, ms_back>>
srtVars == <<spc, timing_data, srt_text, parsed>>
spkVars == <<kpc, speaker_text, speaker_segments>>
segVars == <<gpc, events, single_phrases, multi_phrases>>
vars == <<timeVars, srtVars, spkVars, tts, mst, segVars>>

(***************************************************************************)
(* Characters and strings                                                  *)
(***************************************************************************)
NL == "\n"

DigitChars == <<"0", "1", "2", "3", "4", "5", "6", "7", "8", "9">>

\* str.isdigit / \d on one character (ASCII digits only)
IsDigit(c) == \E d \in 1..10 : DigitChars[d] = c

DigitVal(c) == (CHOOSE d \in 1..10 : DigitChars[d] = c) - 1

\* SUPERSCRIPT TWO: a character str.isdigit() accepts, and that int() and \d reject
SuperTwo == "²"

\* str.isdigit() on one character
IsDigitChar(c) == IsDigit(c) \/ c = SuperTwo

\* \s on one character, and the characters str.strip() removes
IsSpace(c) == c \in {" ", "\t", "\r", "\n"}

\* a value no call returns (all results are naturals): the call raised an exception
Raised == 0 - 1

\* f"{n:d}": the decimal digits of a natural number
RECURSIVE Dec(_)
Dec(n) == IF n < 10 THEN <<DigitChars[n + 1]>>
          ELSE Dec(n \div 10) \o <<DigitChars[(n % 10) + 1]>>

\* f"{n:0wd}": at least w digits, zero-padded on the left, never truncated
Pad(n, w) == LET d == Dec(n)
             IN IF Len(d) >= w THEN d
                ELSE [i \in 1..w |-> IF i <= w - Len(d) THEN "0" ELSE d[i - (w - Len(d))]]

\* int(s) on a string: its value, or Raised when s is not a run of digits
RECURSIVE DigitsVal(_)
DigitsVal(s) == IF Len(s) = 0 THEN 0
                ELSE 10 * DigitsVal(SubSeq(s, 1, Len(s) - 1)) + DigitVal(s[Len(s)])

IsDigitStr(s) == Len(s) > 0 /\ \A i \in 1..Len(s) : IsDigit(s[i])

ToInt(s) == IF IsDigitStr(s) THEN DigitsVal(s) ELSE Raised

\* str.isdigit(): not empty, and every character a digit character
isdigit(s) == Len(s) > 0 /\ \A i \in 1..Len(s) : IsDigitChar(s[i])

\* str.split(c)
RECURSIVE Split(_, _)
Split(s, c) ==
    IF \A i \in 1..Len(s) : s[i] # c THEN <<s>>
    ELSE LET p == CHOOSE i \in 1..Len(s) : s[i] = c /\ \A j \in 1..(i - 1) : s[j] # c
         IN <<SubSeq(s, 1, p - 1)>> \o Split(SubSeq(s, p + 1, Len(s)), c)

\* str.lstrip(), str.rstrip(), str.strip()
RECURSIVE LStrip(_)
LStrip(s) == IF Len(s) > 0 /\ IsSpace(s[1]) THEN LStrip(Tail(s)) ELSE s

RECURSIVE RStrip(_)
RStrip(s) == IF Len(s) > 0 /\ IsSpace(s[Len(s)]) THEN RStrip(SubSeq(s, 1, Len(s) - 1)) ELSE s

Strip(s) == LStrip(RStrip(s))

\* the concatenation of a sequence of strings
RECURSIVE Concat(_)
Concat(ss) == IF Len(ss) = 0 THEN <<>> ELSE Head(ss) \o Concat(Tail(ss))

\* sep.join(ss)
RECURSIVE Join(_, _)
Join(ss, sep) == IF Len(ss) = 0 THEN <<>>
                 ELSE IF Len(ss) = 1 THEN ss[1]
                 ELSE ss[1] \o sep \o Join(Tail(ss), sep)

(***************************************************************************)
(* format_time and time_to_ms                                              *)
(***************************************************************************)
MsPerSecond == 1000
SecondsPerMinute == 60
MinutesPerHour == 60
MsPerMinute == 60000
MsPerHour == 3600000

\* a plausible bug: the hours field cut to its two low digits
format_time_two_digit_hours(ms) ==
    LET seconds0 == ms \div MsPerSecond
        minutes0 == seconds0 \div SecondsPerMinute
        hours == (minutes0 \div MinutesPerHour) % 100
    IN Pad(hours, 2) \o <<":">> \o Pad(minutes0 % MinutesPerHour, 2) \o <<":">>
       \o Pad(seconds0 % SecondsPerMinute, 2) \o <<",">> \o Pad(ms % MsPerSecond, 3)

\* format_time(milliseconds), on an integer: int(milliseconds) is applied by the caller
format_time(ms) ==
    LET seconds0 == ms \div MsPerSecond
        millis == ms % MsPerSecond
        minutes0 == seconds0 \div SecondsPerMinute
        seconds == seconds0 % SecondsPerMinute
        hours == minutes0 \div MinutesPerHour
        minutes == minutes0 % MinutesPerHour
    IN Pad(hours, 2) \o <<":">> \o Pad(minutes, 2) \o <<":">> \o Pad(seconds, 2)
       \o <<",">> \o Pad(millis, 3)

\* time_to_ms(time_str): Raised stands for the ValueError of a failed unpacking or int()
time_to_ms(s) ==
    LET parts == Split(s, ":")
    IN IF Len(parts) # 3 THEN Raised
       ELSE LET rest == Split(parts[3], ",")
            IN IF Len(rest) # 2 THEN Raised
               ELSE LET h == ToInt(parts[1])
                        m == ToInt(parts[2])
                        sec == ToInt(rest[1])
                        f == ToInt(rest[2])
                    IN IF Raised \in {h, m, sec, f} THEN Raised
                       ELSE h * MsPerHour + m * MsPerMinute + sec * MsPerSecond + f

(***************************************************************************)
(* parse_srt_content and the subtitle writer                               *)
(***************************************************************************)
\* \d{2}:\d{2}:\d{2},\d{3} matched at position p of line l
TsAt(l, p) ==
    /\ p >= 1 /\ p + 11 <= Len(l)
    /\ IsDigit(l[p]) /\ IsDigit(l[p + 1]) /\ l[p + 2] = ":"
    /\ IsDigit(l[p + 3]) /\ IsDigit(l[p + 4]) /\ l[p + 5] = ":"
    /\ IsDigit(l[p + 6]) /\ IsDigit(l[p + 7]) /\ l[p + 8] = ","
    /\ IsDigit(l[p + 9]) /\ IsDigit(l[p + 10]) /\ IsDigit(l[p + 11])

\* \s* from position p: the first position at or after p that holds no white space
RECURSIVE SkipSpaces(_, _)
SkipSpaces(l, p) == IF p <= Len(l) /\ IsSpace(l[p]) THEN SkipSpaces(l, p + 1) ELSE p

ArrowAt(l, p) == p + 2 <= Len(l) /\ l[p] = "-" /\ l[p + 1] = "-" /\ l[p + 2] = ">"

\* the whole timing pattern matched with its first character at position p
TimingAt(l, p) ==
    /\ TsAt(l, p)
    /\ LET a == SkipSpaces(l, p + 12)
       IN ArrowAt(l, a) /\ TsAt(l, SkipSpaces(l, a + 3))

\* a plausible bug: the timing pattern anchored at the start of the line (re.match)
timestamp_match_anchored(l) ==
    IF TimingAt(l, 1)
    THEN [found |-> TRUE, g1 |-> SubSeq(l, 1, 12),
          g2 |-> LET b == SkipSpaces(l, SkipSpaces(l, 13) + 3) IN SubSeq(l, b, b + 11)]
    ELSE [found |-> FALSE, g1 |-> <<>>, g2 |-> <<>>]

\* re.search(timing pattern, line): the leftmost match and its two groups
timestamp_match(l) ==
    IF \E p \in 1..Len(l) : TimingAt(l, p)
    THEN LET p == CHOOSE q \in 1..Len(l) :
                      TimingAt(l, q) /\ \A r \in 1..(q - 1) : ~TimingAt(l, r)
             b == SkipSpaces(l, SkipSpaces(l, p + 12) + 3)
         IN [found |-> TRUE, g1 |-> SubSeq(l, p, p + 11), g2 |-> SubSeq(l, b, b + 11)]
    ELSE [found |-> FALSE, g1 |-> <<>>, g2 |-> <<>>]

\* the inner while loop: the first line at or after i that is blank, or Len + 1
RECURSIVE TextEnd(_, _)
TextEnd(lines, i) ==
    IF i <= Len(lines) /\ Strip(lines[i]) # <<>> THEN TextEnd(lines, i + 1) ELSE i

\* subtitle_text: every collected line followed by one space
RECURSIVE CollectText(_, _, _)
CollectText(lines, i, j) ==
    IF i >= j THEN <<>> ELSE lines[i] \o <<" ">> \o CollectText(lines, i + 1, j)

\* the outer while loop of parse_srt_content from line i (1-based), timing_data so far td:
\* the list at the end of the loop, or raised, for the ValueError of
\* subtitle_num = int(...) on a line that isdigit() accepts and int() does not
RECURSIVE ParseLoop(_, _, _)
ParseLoop(lines, i, td) ==
    IF i > Len(lines) THEN [raised |-> FALSE, timing_data |-> td]
    ELSE IF Strip(lines[i]) = <<>> THEN ParseLoop(lines, i + 1, td)
    ELSE IF isdigit(Strip(lines[i]))
         THEN IF ToInt(Strip(lines[i])) = Raised THEN [raised |-> TRUE, timing_data |-> td]
              ELSE IF i + 1 > Len(lines) THEN [raised |-> FALSE, timing_data |-> td]
              ELSE LET m == timestamp_match(lines[i + 1])
                   IN IF m.found
                      THEN LET j == TextEnd(lines, i + 2)
                           IN ParseLoop(lines, j,
                                  Append(td, [text |-> Strip(CollectText(lines, i + 2, j)),
                                              start |-> time_to_ms(m.g1),
                                              end |-> time_to_ms(m.g2)]))
                      ELSE ParseLoop(lines, i + 1, td)
    ELSE ParseLoop(lines, i + 1, td)

\* parse_srt_content(content) ends with an exception instead of returning
parse_srt_raises(content) == ParseLoop(Split(content, NL), 1, <<>>).raised

\* parse_srt_content(content): the timing_data it returns
parse_srt_content(content) == ParseLoop(Split(content, NL), 1, <<>>).timing_data

\* the text_only result of parse_srt_content: " ".join of the cue texts
parse_srt_text(content) ==
    LET td == parse_srt_content(content)
    IN Join([k \in 1..Len(td) |-> td[k].text], <<" ">>)

\* one block of the subtitle writer: index i (1-based), timing line, text, blank line
SrtBlock(i, entry) ==
    Dec(i) \o <<NL>>
    \o format_time(entry.start) \o <<" ", "-", "-", ">", " ">> \o format_time(entry.end) \o <<NL>>
    \o entry.text \o <<NL, NL>>

\* the subtitle file written for a list of entries
WriteSrt(entries) == Concat([k \in 1..Len(entries) |-> SrtBlock(k, entries[k])])

(***************************************************************************)
(* parse_multi_speaker_text                                                *)
(***************************************************************************)
\* re.IGNORECASE on the letters of the pattern
Lower(c) ==
    CASE c = "S" -> "s" [] c = "P" -> "p" [] c = "E" -> "e" [] c = "A" -> "a"
      [] c = "K" -> "k" [] c = "R" -> "r" [] OTHER -> c

SpeakerWord == <<"s", "p", "e", "a", "k", "e", "r">>

\* \d+ from position p: the first position at or after p that holds no digit
RECURSIVE SkipDigits(_, _)
SkipDigits(l, p) == IF p <= Len(l) /\ IsDigit(l[p]) THEN SkipDigits(l, p + 1) ELSE p

\* where the digits of group 1 start: after "Speaker" and \s*, or after "S"; 0 if neither
SpeakerDigitsStart(l) ==
    IF Len(l) >= 7 /\ \A i \in 1..7 : Lower(l[i]) = SpeakerWord[i]
    THEN SkipSpaces(l, 8)
    ELSE IF Len(l) >= 1 /\ Lower(l[1]) = "s" THEN 2 ELSE 0

\* speaker_pattern.match(l): ^(Speaker\s*\d+|S\d+)\s*:\s*(.*)$ with its two groups
speaker_match(l) ==
    LET d == SpeakerDigitsStart(l)
        e == IF d = 0 THEN 0 ELSE SkipDigits(l, d)
        c == IF d = 0 THEN 0 ELSE SkipSpaces(l, e)
    IN IF d # 0 /\ e > d /\ c <= Len(l) /\ l[c] = ":"
       THEN [found |-> TRUE, g1 |-> SubSeq(l, 1, e - 1),
             g2 |-> SubSeq(l, SkipSpaces(l, c + 1), Len(l))]
       ELSE [found |-> FALSE, g1 |-> <<>>, g2 |-> <<>>]

\* current_speaker = None is the empty string here: group 1 is never empty
NoSpeaker == <<>>

\* a plausible bug: the segment still being collected at the end of input is lost
FlushSegment_dropped(segs, cur_speaker, cur_text) == segs

\* "if current_speaker and current_text: speaker_segments.append(...)"
FlushSegment(segs, cur_speaker, cur_text) ==
    IF cur_speaker # NoSpeaker /\ cur_text # <<>>
    THEN Append(segs, [speaker |-> cur_speaker, text |-> Strip(Join(cur_text, <<" ">>))])
    ELSE segs

\* the loop over the lines, from line i, and the flush after it
RECURSIVE SpeakerLoop(_, _, _, _, _)
SpeakerLoop(lines, i, segs, cur_speaker, cur_text) ==
    IF i > Len(lines) THEN FlushSegment(segs, cur_speaker, cur_text)
    ELSE LET m == speaker_match(Strip(lines[i]))
         IN IF m.found
            THEN LET flushed == cur_speaker # NoSpeaker /\ cur_text # <<>>
                     segs1 == IF flushed
                              THEN Append(segs, [speaker |-> cur_speaker,
                                                 text |-> Strip(Join(cur_text, <<" ">>))])
                              ELSE segs
                     text1 == IF flushed THEN <<>> ELSE cur_text
                     text2 == IF Strip(m.g2) # <<>> THEN Append(text1, Strip(m.g2)) ELSE text1
                 IN SpeakerLoop(lines, i + 1, segs1, Strip(m.g1), text2)
            ELSE IF Strip(lines[i]) # <<>> /\ cur_speaker # NoSpeaker
                 THEN SpeakerLoop(lines, i + 1, segs, cur_speaker,
                                  Append(cur_text, Strip(lines[i])))
                 ELSE SpeakerLoop(lines, i + 1, segs, cur_speaker, cur_text)

parse_multi_speaker_text(text) == SpeakerLoop(Split(text, NL), 1, <<>>, NoSpeaker, <<>>)

(***************************************************************************)
(* The phrase segmenter (both copies) and the audio library calls          *)
(*                                                                         *)
(* A word boundary is [text, offset, duration], offset and duration in     *)
(* 100 ns ticks as the synthesis service sends them.  The code divides by  *)
(* 10000 into float milliseconds; a phrase here keeps start and end in     *)
(* ticks (the exact value times 10000), so that fractions of a millisecond *)
(* are not lost, and the writer truncates as format_time's int() does.     *)
(***************************************************************************)
TicksPerMs == 10000
PauseMs == 300
MaxPhraseWords == 5
BufferMs == 1000

PunctStart == {".", ",", "!", "?", ":", ";"}
PunctEnd == {".", "!", "?", ":", ";", ","}

\* word in [...] or word.startswith((...))
IsPunctStart(word) == Len(word) > 0 /\ word[1] \in PunctStart

\* word.endswith((...))
EndsWithPunct(word) == Len(word) > 0 /\ word[Len(word)] \in PunctEnd

\* a plausible bug: a token that starts with punctuation replaces the text collected so far
AppendWord_overwrite(current_text, word) ==
    IF IsPunctStart(word) THEN word \o <<" ">> ELSE current_text \o word \o <<" ">>

\* lines 262-265: the token appended to current_text
AppendWord(current_text, word) ==
    IF IsPunctStart(word) THEN RStrip(current_text) \o word \o <<" ">>
    ELSE current_text \o word \o <<" ">>

\* lines 268-282: should_break after event i (1-based) of wb, the phrase holding n events
should_break(wb, i, n) ==
    IF EndsWithPunct(wb[i].text) \/ i = Len(wb) THEN TRUE
    ELSE IF n >= MaxPhraseWords THEN TRUE
    ELSE IF i < Len(wb)
         THEN wb[i + 1].offset - (wb[i].offset + wb[i].duration) > PauseMs * TicksPerMs
         ELSE FALSE

\* a plausible bug: the pause compared with 300 of the 100 ns units of the offsets
should_break_multi_offset_units(wb, j, n) ==
    IF EndsWithPunct(wb[j].text) \/ j = Len(wb) THEN TRUE
    ELSE IF n >= MaxPhraseWords THEN TRUE
    ELSE IF j < Len(wb)
         THEN wb[j + 1].offset - (wb[j].offset + wb[j].duration) > PauseMs
         ELSE FALSE

\* lines 435-444: the same decision in multi_speaker_tts
should_break_multi(wb, j, n) ==
    IF EndsWithPunct(wb[j].text) \/ j = Len(wb) THEN TRUE
    ELSE IF n >= MaxPhraseWords THEN TRUE
    ELSE IF j < Len(wb)
         THEN wb[j + 1].offset - (wb[j].offset + wb[j].duration) > PauseMs * TicksPerMs
         ELSE FALSE

\* a plausible bug: the end of a phrase taken from the duration alone
PhraseEnd_duration_only(current_phrase) == current_phrase[Len(current_phrase)].duration

\* phrase_end = (last_boundary["offset"] + last_boundary["duration"]) / 10000, in ticks
PhraseEnd(current_phrase) ==
    current_phrase[Len(current_phrase)].offset + current_phrase[Len(current_phrase)].duration

\* lines 251-294: the loop of text_to_speech from event i; the phrases it has at the end
RECURSIVE SegmentLoop(_, _, _, _, _, _)
SegmentLoop(wb, i, phrases, current_phrase, current_text, phrase_start) ==
    IF i > Len(wb) THEN phrases
    ELSE LET ps == IF current_phrase = <<>> THEN wb[i].offset ELSE phrase_start
             cp == Append(current_phrase, wb[i])
             ct == AppendWord(current_text, wb[i].text)
         IN IF (should_break(wb, i, Len(cp)) \/ i = Len(wb)) /\ cp # <<>>
            THEN SegmentLoop(wb, i + 1,
                     Append(phrases, [text |-> Strip(ct), start |-> ps, end |-> PhraseEnd(cp)]),
                     <<>>, <<>>, ps)
            ELSE SegmentLoop(wb, i + 1, phrases, cp, ct, ps)

\* lines 246-294
segment_phrases(wb) == SegmentLoop(wb, 1, <<>>, <<>>, <<>>, 0)

\* lines 418-457: the loop of multi_speaker_tts from event j; phrases is the segment's
\* list, entries is subtitle_entries, extended by the whole of phrases at every close
RECURSIVE MultiSegmentLoop(_, _, _, _, _, _, _, _)
MultiSegmentLoop(wb, j, phrases, current_phrase, current_text, phrase_start, entries, speaker) ==
    IF j > Len(wb) THEN [phrases |-> phrases, entries |-> entries]
    ELSE LET ps == IF current_phrase = <<>> THEN wb[j].offset ELSE phrase_start
             cp == Append(current_phrase, wb[j])
             ct == AppendWord(current_text, wb[j].text)
         IN IF (should_break_multi(wb, j, Len(cp)) \/ j = Len(wb)) /\ cp # <<>>
            THEN LET ph == Append(phrases,
                               [text |-> <<"[">> \o speaker \o <<"]", " ">> \o Strip(ct),
                                start |-> ps, end |-> PhraseEnd(cp)])
                 IN MultiSegmentLoop(wb, j + 1, ph, <<>>, <<>>, ps, entries \o ph, speaker)
            ELSE MultiSegmentLoop(wb, j + 1, phrases, cp, ct, ps, entries, speaker)

\* a plausible bug: the word boundary left at its offset within its own segment
AdjustChunk_unshifted(chunk, current_offset) == chunk

\* lines 406-407: adjusted_chunk["offset"] += current_offset * 10000
AdjustChunk(chunk, current_offset) ==
    [chunk EXCEPT !.offset = @ + current_offset * TicksPerMs]

\* the subtitle file of a phrase list: format_time(int(ticks / 10000))
PhrasesInMs(phrases) ==
    [k \in 1..Len(phrases) |->
        [text |-> phrases[k].text,
         start |-> phrases[k].start \div TicksPerMs,
         end |-> phrases[k].end \div TicksPerMs]]

Max(a, b) == IF a >= b THEN a ELSE b
Min(a, b) == IF a <= b THEN a ELSE b

\* AudioSegment.silent(duration=d): a buffer d ms long
Silent(d) == d

\* a plausible bug: mixing that grows the buffer to hold the whole of the overlaid segment
Overlay_extending(base, seg, position) == Max(base, position + seg)

\* final_audio.overlay(segment_audio, position): the result is as long as final_audio
Overlay(base, seg, position) == base

\* lines 207-209: every segment overlaid in turn
RECURSIVE OverlayAll(_, _, _)
OverlayAll(final_audio, audio_segments, k) ==
    IF k > Len(audio_segments) THEN final_audio
    ELSE OverlayAll(Overlay(final_audio, audio_segments[k].audio, audio_segments[k].start),
                    audio_segments, k + 1)

(***************************************************************************)
(* Format detection and process_uploaded_file                              *)
(***************************************************************************)
\* the detection pattern matched with its first digit at position p of the text:
\* \d+, then \s* (which may run over line ends), then \n, then the timing pattern
DetectAt(text, p) ==
    LET e == SkipDigits(text, p)
        f == SkipSpaces(text, e)
    IN e > p /\ f > e /\ text[f - 1] = NL /\ TimingAt(text, f)

\* bool(re.search(r'^\d+\s*\n<timing>', text, re.MULTILINE))
is_srt_format(text) ==
    \E p \in 1..Len(text) : (p = 1 \/ text[p - 1] = NL) /\ DetectAt(text, p)

\* no uploaded file
NoFile == [present |-> FALSE, content |-> <<>>, ext |-> ""]

\* the start of f"Error processing file: {str(e)}"
ErrorText == <<"E", "r", "r", "o", "r">>

\* process_uploaded_file(file) on a readable file: (text_content, timing_data, is_subtitle);
\* timing_data None is the empty list here, both are false to "if timing_data";
\* an exception of the parser is caught and reported in the text (lines 113-114)
process_uploaded_file(file) ==
    IF file.ext = ".srt" \/ is_srt_format(file.content)
    THEN IF parse_srt_raises(file.content)
         THEN [text |-> ErrorText, timing_data |-> <<>>, is_subtitle |-> FALSE]
         ELSE [text |-> parse_srt_text(file.content),
               timing_data |-> parse_srt_content(file.content), is_subtitle |-> TRUE]
    ELSE [text |-> file.content, timing_data |-> <<>>, is_subtitle |-> FALSE]

\* no audio buffer or file content
NoAudio == 0 - 1

\* the value a handler returns; an exception leaves no value at all
NoResult == [audio |-> "None", subtitle |-> "None", warning |-> "None"]

(***************************************************************************)
(* Speaker-to-voice resolution in multi_speaker_tts                        *)
(***************************************************************************)
\* re.search(r'\d+', speaker): the position of the first digit, 0 if there is none
FirstDigit(speaker) ==
    IF \E p \in 1..Len(speaker) : IsDigit(speaker[p])
    THEN CHOOSE p \in 1..Len(speaker) :
             IsDigit(speaker[p]) /\ \A q \in 1..(p - 1) : ~IsDigit(speaker[q])
    ELSE 0

\* speaker_num: the first run of digits as a number, 1 when there is none
speaker_num(speaker) ==
    LET p == FirstDigit(speaker)
    IN IF p = 0 THEN 1 ELSE DigitsVal(SubSeq(speaker, p, SkipDigits(speaker, p) - 1))

\* a plausible bug: the index not held under the number of slots
speaker_idx_unclamped(speaker, speaker_settings) == speaker_num(speaker) - 1

\* line 381: speaker_idx, counted from 0 as in the code
speaker_idx(speaker, speaker_settings) ==
    Min(speaker_num(speaker) - 1, Len(speaker_settings) - 1)

\* line 383: the test that ends the call with "No voice selected for <speaker>."
no_voice(idx, speaker_settings) ==
    IF idx < 0 \/ idx >= Len(speaker_settings) THEN TRUE
    ELSE speaker_settings[idx + 1].voice = ""

\* a plausible bug: the paths of the temporary files handed back with the message
RejectResult_with_paths(audio_path, subtitle_path) ==
    [audio |-> audio_path, subtitle |-> subtitle_path, warning |-> "No voice selected"]

\* line 384: return None, None, f"No voice selected for {speaker}."
RejectResult(audio_path, subtitle_path) ==
    [audio |-> "None", subtitle |-> "None", warning |-> "No voice selected"]

\* lines 499-515: a slot for each speaker whose voice is selected
BuildSettings(speaker1_voice, speaker2_voice) ==
    (IF speaker1_voice # "" THEN <<[voice |-> speaker1_voice]>> ELSE <<>>)
    \o (IF speaker2_voice # "" THEN <<[voice |-> speaker2_voice]>> ELSE <<>>)

\* combined += audio over the segments: the lengths add up
RECURSIVE Combined(_)
Combined(audio_segments) ==
    IF audio_segments = <<>> THEN 0
    ELSE Head(audio_segments).duration + Combined(Tail(audio_segments))

(***************************************************************************)
(* Components that a specification does not exercise stay switched off.    *)
(***************************************************************************)
TimeOff == tpc = "off" /\ milliseconds = 0 /\ time_str = <<>> /\ ms_back = 0
SrtOff == spc = "off" /\ timing_data = <<>> /\ srt_text = <<>> /\ parsed = <<>>
SpkOff == kpc = "off" /\ speaker_text = <<>> /\ speaker_segments = <<>>
TtsOff == tts = [pc |-> "off"]
MstOff == mst = [pc |-> "off"]
SegOff == gpc = "off" /\ events = <<>> /\ single_phrases = <<>> /\ multi_phrases = <<>>

(***************************************************************************)
(* SpecTime: format_time followed by time_to_ms on one value               *)
(***************************************************************************)
MaxHours == 250

HourSamples == {0, 1, 99, 100, MaxHours}

MsSamples ==
    {h * MsPerHour + m * MsPerMinute + sec * MsPerSecond + f :
        h \in HourSamples, m \in {0, 59}, sec \in {0, 7, 59}, f \in {0, 5, 999}}

InitTime ==
    /\ tpc = "input" /\ milliseconds \in MsSamples /\ time_str = <<>> /\ ms_back = 0
    /\ SrtOff /\ SpkOff /\ TtsOff /\ MstOff /\ SegOff

FormatTime ==
    /\ tpc = "input"
    /\ time_str' = format_time(milliseconds)
    /\ tpc' = "formatted"
    /\ UNCHANGED <<milliseconds, ms_back, srtVars, spkVars, tts, mst, segVars>>

TimeToMs ==
    /\ tpc = "formatted"
    /\ ms_back' = time_to_ms(time_str)
    /\ tpc' = "parsed"
    /\ UNCHANGED <<milliseconds, time_str, srtVars, spkVars, tts, mst, segVars>>

NextTime == FormatTime \/ TimeToMs

SpecTime == InitTime /\ [][NextTime]_vars

\* C2: time_to_ms(format_time(x)) = x for every non-negative integer x, the values of
\* 100 hours and more (an hours field wider than two digits) included.
C2_TimeRoundTrip == tpc = "parsed" => ms_back = milliseconds

\* a value of 100 hours or more has been formatted, with a three-digit hours field, and read back
C2_Witness ==
    /\ tpc = "parsed"
    /\ milliseconds >= 100 * MsPerHour
    /\ Len(time_str) = 13

(***************************************************************************)
(* SpecSrt: a cue list written by the subtitle writer and parsed back      *)
(***************************************************************************)
MaxCues == 2

TimeSamples == {0, 1500, 100 * MsPerHour - 1, 100 * MsPerHour}

\* cue texts as the program produces them: one line, trimmed
TextSamples == {<<"a", " ", "b">>, <<"1", "2">>}

CueSamples ==
    {[text |-> t, start |-> a, end |-> b] :
        t \in TextSamples, a \in TimeSamples, b \in TimeSamples} \ 
    {c \in [text : TextSamples, start : TimeSamples, end : TimeSamples] : c.start >= c.end}

CueLists == UNION {[1..n -> CueSamples] : n \in 0..MaxCues}

InitSrt ==
    /\ spc = "cues" /\ timing_data \in CueLists /\ srt_text = <<>> /\ parsed = <<>>
    /\ TimeOff /\ SpkOff /\ TtsOff /\ MstOff /\ SegOff

Serialize ==
    /\ spc = "cues"
    /\ srt_text' = WriteSrt(timing_data)
    /\ spc' = "written"
    /\ UNCHANGED <<timing_data, parsed, timeVars, spkVars, tts, mst, segVars>>

Parse ==
    /\ spc = "written"
    /\ parsed' = parse_srt_content(srt_text)
    /\ spc' = "parsed"
    /\ UNCHANGED <<timing_data, srt_text, timeVars, spkVars, tts, mst, segVars>>

NextSrt == Serialize \/ Parse

SpecSrt == InitSrt /\ [][NextSrt]_vars

\* C1: for every cue list whose cues have a non-negative integer start, start < end and
\* non-empty text, parsing what the subtitle writer wrote gives back a cue list of the
\* same length with the same (start, end, text) triples in the same order.
C1_RoundTrip == spc = "parsed" => parsed = timing_data

(***************************************************************************)
(* SpecParse: parse_srt_content on one text                                *)
(***************************************************************************)
MaxBlocks == 3
MaxParseLines == 4

Arrow == <<" ", "-", "-", ">", " ">>

TimingLine == format_time(1000) \o Arrow \o format_time(2000)

NotATimestamp ==
    <<"n", "o", "t", "-", "a", "-", "t", "i", "m", "e", "s", "t", "a", "m", "p">>

\* an index line, a line that is no timing line, one text line and a blank line
MalformedBlock(text_line) == <<"1", NL>> \o NotATimestamp \o <<NL>> \o text_line \o <<NL, NL>>

\* "1\nnot-a-timestamp\ntext\n\n", and the same block with the text line SUPERSCRIPT TWO
MalformedBlocks == {MalformedBlock(<<"t", "e", "x", "t">>), MalformedBlock(<<SuperTwo>>)}

\* a well-formed block, as the subtitle writer writes it
GoodBlock == SrtBlock(2, [text |-> <<"h", "e", "l", "l", "o">>, start |-> 1000, end |-> 2000])

\* an index line and a timing line with no text line after them
NoTextBlock == <<"3", NL>> \o TimingLine \o <<NL, NL>>

\* a blank line between the index line and the timing line
GapBlock == <<"4", NL, NL>> \o TimingLine \o <<NL, "h", "i", NL, NL>>

\* a timing line with text before it and no space around the arrow, and two text lines
LooseBlock ==
    <<"5", NL, "x">> \o format_time(0) \o <<"-", "-", ">">> \o format_time(1500)
    \o <<NL, "a", NL, " ", "b", NL, NL>>

BlockSamples == MalformedBlocks \cup {GoodBlock, NoTextBlock, GapBlock, LooseBlock}

ParseLineSamples ==
    { <<"1">>, TimingLine, <<"h", "i">>, <<>>, <<SuperTwo>>, <<" ", "7", "\r">>,
      <<"1", "2", ":", "3">> }

ParseTexts ==
    {Concat(bs) : bs \in UNION {[1..n -> BlockSamples] : n \in 0..MaxBlocks}}
    \cup {Join(ls, <<NL>>) : ls \in UNION {[1..n -> ParseLineSamples] : n \in 0..MaxParseLines}}

InitParse ==
    /\ spc = "content" /\ timing_data = <<>> /\ srt_text \in ParseTexts /\ parsed = <<>>
    /\ TimeOff /\ SpkOff /\ TtsOff /\ MstOff /\ SegOff

\* parse_srt_content(content): it returns its timing data, or ends with the ValueError
ParseContent ==
    /\ spc = "content"
    /\ IF parse_srt_raises(srt_text)
       THEN spc' = "raised" /\ parsed' = parsed
       ELSE spc' = "scanned" /\ parsed' = parse_srt_content(srt_text)
    /\ UNCHANGED <<timing_data, srt_text, timeVars, spkVars, tts, mst, segVars>>

NextParse == ParseContent

SpecParse == InitParse /\ [][NextParse]_vars

\* block M stands in srt_text from position p, at the start or after a blank line
BlockAt(p, M) ==
    /\ p = 1 \/ (p > 2 /\ srt_text[p - 1] = NL /\ srt_text[p - 2] = NL)
    /\ p + Len(M) - 1 <= Len(srt_text)
    /\ SubSeq(srt_text, p, p + Len(M) - 1) = M

\* srt_text without the block of length n that stands at position p
WithoutBlock(p, n) == SubSeq(srt_text, 1, p - 1) \o SubSeq(srt_text, p + n, Len(srt_text))

\* C11: a block whose index line is followed by a line that is no timing line is skipped
\* without an exception and gives no cue, and the blocks around it are parsed as if it
\* were not there.
C11_MalformedSkipped ==
    spc \in {"scanned", "raised"} =>
        \A M \in MalformedBlocks : \A p \in 1..Len(srt_text) :
            BlockAt(p, M) =>
                /\ spc = "scanned"
                /\ ~parse_srt_raises(WithoutBlock(p, Len(M)))
                /\ parsed = parse_srt_content(WithoutBlock(p, Len(M)))

\* C14: every cue of parse_srt_content has non-empty text: an index line and a timing
\* line with no text line after them give no cue.
C14_CuesHaveText ==
    spc = "scanned" => \A k \in 1..Len(parsed) : parsed[k].text # <<>>

(***************************************************************************)
(* SpecSpeaker: parse_multi_speaker_text on one text                       *)
(***************************************************************************)
MaxLines == 4

LineSamples ==
    { <<"S", "1", ":", " ", "a">>,
      <<"S", "2", ":">>,
      <<"S", "p", "e", "a", "k", "e", "r", "1", ":", "b">>,
      <<>>,
      <<" ", "c", " ">>,
      <<"S", ":", "d">>,
      <<"s", "2", " ", ":", " ", "e">> }

\* "Speaker1: Hi\nSpeaker2: Hello\nSpeaker1: Bye"
ExampleText ==
    Join(<< <<"S", "p", "e", "a", "k", "e", "r", "1", ":", " ", "H", "i">>,
            <<"S", "p", "e", "a", "k", "e", "r", "2", ":", " ", "H", "e", "l", "l", "o">>,
            <<"S", "p", "e", "a", "k", "e", "r", "1", ":", " ", "B", "y", "e">> >>, <<NL>>)

SpeakerTexts ==
    {Join(ls, <<NL>>) : ls \in UNION {[1..n -> LineSamples] : n \in 0..MaxLines}}
    \cup {ExampleText}

InitSpeaker ==
    /\ kpc = "input" /\ speaker_text \in SpeakerTexts /\ speaker_segments = <<>>
    /\ TimeOff /\ SrtOff /\ TtsOff /\ MstOff /\ SegOff

ParseSpeakers ==
    /\ kpc = "input"
    /\ speaker_segments' = parse_multi_speaker_text(speaker_text)
    /\ kpc' = "done"
    /\ UNCHANGED <<speaker_text, timeVars, srtVars, tts, mst, segVars>>

NextSpeaker == ParseSpeakers

SpecSpeaker == InitSpeaker /\ [][NextSpeaker]_vars

\* the elements of a finite set of integers in ascending order
RECURSIVE Ascending(_)
Ascending(S) ==
    IF S = {} THEN <<>>
    ELSE LET m == CHOOSE x \in S : \A y \in S : x <= y
         IN <<m>> \o Ascending(S \ {m})

C8_Lines == Split(speaker_text, NL)

C8_IsHeader(i) == speaker_match(Strip(C8_Lines[i])).found

\* the last line of the span of header line i: the line before the next header, or the last line
C8_SpanEnd(i) ==
    CHOOSE j \in i..Len(C8_Lines) :
        /\ \A k \in (i + 1)..j : ~C8_IsHeader(k)
        /\ (j = Len(C8_Lines) \/ C8_IsHeader(j + 1))

\* the non-blank fragments of header line i: the rest of the header line, then the lines of its span
C8_Fragments(i) ==
    LET all == <<speaker_match(Strip(C8_Lines[i])).g2>>
               \o [k \in 1..(C8_SpanEnd(i) - i) |-> C8_Lines[i + k]]
        kept == Ascending({k \in 1..Len(all) : Strip(all[k]) # <<>>})
    IN [k \in 1..Len(kept) |-> Strip(all[kept[k]])]

C8_Expected ==
    LET hs == Ascending({i \in 1..Len(C8_Lines) : C8_IsHeader(i) /\ C8_Fragments(i) # <<>>})
    IN [k \in 1..Len(hs) |->
           [speaker |-> speaker_match(Strip(C8_Lines[hs[k]])).g1,
            text |-> Join(C8_Fragments(hs[k]), <<" ">>)]]

\* C8: parse_multi_speaker_text returns, in document order, exactly one segment for each
\* speaker-header line that collects at least one non-blank fragment before the next
\* header or the end of input (same-speaker headers are not merged, blank lines end
\* nothing, headers without text are dropped, text before the first header is ignored);
\* every segment's text is non-empty and is its fragments joined by single spaces; the
\* three-line example gives (Speaker1,Hi), (Speaker2,Hello), (Speaker1,Bye).
C8_SpeakerSegments ==
    kpc = "done" =>
        /\ speaker_segments = C8_Expected
        /\ \A k \in 1..Len(speaker_segments) : speaker_segments[k].text # <<>>
        /\ speaker_text = ExampleText =>
               speaker_segments =
                   << [speaker |-> <<"S", "p", "e", "a", "k", "e", "r", "1">>, text |-> <<"H", "i">>],
                      [speaker |-> <<"S", "p", "e", "a", "k", "e", "r", "2">>,
                       text |-> <<"H", "e", "l", "l", "o">>],
                      [speaker |-> <<"S", "p", "e", "a", "k", "e", "r", "1">>,
                       text |-> <<"B", "y", "e">>] >>

\* a text with a header that collected nothing between two headers of the same speaker,
\* and text before the first header, has been parsed into two segments
C8_Witness ==
    /\ kpc = "done"
    /\ Len(speaker_segments) = 2
    /\ speaker_segments[1].speaker = speaker_segments[2].speaker
    /\ Cardinality({i \in 1..Len(C8_Lines) : C8_IsHeader(i)}) = 3
    /\ ~C8_IsHeader(1) /\ Strip(C8_Lines[1]) # <<>>

(***************************************************************************)
(* SpecSingle: one call of text_to_speech                                  *)
(***************************************************************************)
MaxTtsCues == 2
MaxEvents == 6

\* what the synthesis service sends for one word: a token, the pause before it and
\* its duration, both in ticks
WordKinds ==
    { [text |-> <<"H", "i">>, gap |-> 0, duration |-> 1000000],
      [text |-> <<".">>, gap |-> 0, duration |-> 1000000],
      [text |-> <<",", "x">>, gap |-> 1000000, duration |-> 5000],
      [text |-> <<"y", "o">>, gap |-> 4000000, duration |-> 0] }

\* the word boundaries of a sequence of kinds: offsets never decrease
RECURSIVE BuildEvents(_, _, _)
BuildEvents(kinds, k, t) ==
    IF k > Len(kinds) THEN <<>>
    ELSE <<[text |-> kinds[k].text, offset |-> t + kinds[k].gap,
            duration |-> kinds[k].duration]>>
         \o BuildEvents(kinds, k + 1, t + kinds[k].gap + kinds[k].duration)

EventLists(kindSet, n) == {BuildEvents(ks, 1, 0) : ks \in UNION {[1..m -> kindSet] : m \in 0..n}}

\* the audio of a stream read to its end reaches the end of its last word
StreamedMs(wb) == IF wb = <<>> THEN 0 ELSE PhraseEnd(wb) \div TicksPerMs

\* the length in ms of the audio the service returns for one synthesis
AudioLens == {400, 5000}

TtsCueSamples ==
    { [text |-> <<"1", "2">>, start |-> 0, end |-> 1],
      [text |-> <<"a", " ", "b">>, start |-> 1500, end |-> 2000],
      [text |-> <<"a", " ", "b">>, start |-> 500, end |-> 3000] }

PlainText == <<"H", "i">>

\* subtitle-shaped for the detector, with a blank line between index and timing line
GapText ==
    <<"1", NL, NL>> \o format_time(0) \o <<" ", "-", "-", ">", " ">> \o format_time(2000)
    \o <<NL, "a">>

TtsTexts ==
    {WriteSrt(cl) : cl \in UNION {[1..n -> TtsCueSamples] : n \in 1..MaxTtsCues}}
    \cup {<<" ">>, PlainText, GapText}

TtsFiles ==
    {NoFile}
    \cup {[present |-> TRUE, content |-> c, ext |-> e] :
             c \in {PlainText, WriteSrt(<<[text |-> <<"c">>, start |-> 0, end |-> 700]>>)},
             e \in {".srt", ".txt"}}

TtsRequest(text, voice, generate_subtitles, uploaded_file) ==
    [pc |-> "request", text |-> text, voice |-> voice,
     generate_subtitles |-> generate_subtitles, uploaded_file |-> uploaded_file,
     is_srt_format |-> FALSE, is_subtitle |-> FALSE, file_read |-> FALSE,
     timing_data |-> <<>>, audio_segments |-> <<>>, max_end_time |-> 0,
     final_audio |-> NoAudio, audio_file |-> NoAudio, subtitle_file |-> <<>>,
     word_boundaries |-> <<>>, phrases |-> <<>>, result |-> NoResult]

InitSingle ==
    /\ tts \in {TtsRequest(t, v, g, f) :
                   t \in TtsTexts, v \in {"", "v"}, g \in BOOLEAN, f \in TtsFiles}
    /\ TimeOff /\ SrtOff /\ SpkOff /\ MstOff /\ SegOff

others == <<timeVars, srtVars, spkVars, segVars>>

\* lines 131-134: a request with nothing to convert, or with no voice, is refused
TtsRefuse ==
    /\ tts.pc = "request"
    /\ \/ /\ Strip(tts.text) = <<>> /\ ~tts.uploaded_file.present
          /\ tts' = [tts EXCEPT !.pc = "returned",
                         !.result = [NoResult EXCEPT !.warning =
                             "Please enter text or upload a file to convert."]]
       \/ /\ ~(Strip(tts.text) = <<>> /\ ~tts.uploaded_file.present)
          /\ tts.voice = ""
          /\ tts' = [tts EXCEPT !.pc = "returned",
                         !.result = [NoResult EXCEPT !.warning = "Please select a voice."]]
    /\ UNCHANGED <<others, mst>>

\* a plausible bug: the uploaded file looked at first, its cues replacing the inline ones
TtsDetect_file_first ==
    /\ tts.pc = "request"
    /\ ~(Strip(tts.text) = <<>> /\ ~tts.uploaded_file.present)
    /\ tts.voice # ""
    /\ LET srt == is_srt_format(tts.text)
           read == tts.uploaded_file.present
           f == IF read THEN process_uploaded_file(tts.uploaded_file)
                ELSE [text |-> <<>>, timing_data |-> <<>>, is_subtitle |-> FALSE]
           use == read /\ Strip(f.text) # <<>> /\ f.is_subtitle
           td == IF use THEN f.timing_data
                 ELSE IF srt THEN parse_srt_content(tts.text) ELSE <<>>
           sub == srt \/ use
       IN tts' = [tts EXCEPT
                     !.is_srt_format = srt,
                     !.file_read = read,
                     !.text = IF use THEN f.text ELSE @,
                     !.timing_data = td,
                     !.is_subtitle = sub,
                     !.audio_file = 0,
                     !.pc = IF srt \/ (sub /\ td # <<>>) THEN "overlay" ELSE "plain"]
    /\ UNCHANGED <<others, mst>>

\* lines 136-176: format detection, the uploaded file, the temporary audio file, and
\* the choice between the overlay path and the plain path; an exception of
\* parse_srt_content(text) at line 141 ends the call before any file is created
TtsDetect ==
    /\ tts.pc = "request"
    /\ ~(Strip(tts.text) = <<>> /\ ~tts.uploaded_file.present)
    /\ tts.voice # ""
    /\ LET srt == is_srt_format(tts.text)
           failed == srt /\ parse_srt_raises(tts.text)
           read == ~srt /\ tts.uploaded_file.present
           f == IF read THEN process_uploaded_file(tts.uploaded_file)
                ELSE [text |-> <<>>, timing_data |-> <<>>, is_subtitle |-> FALSE]
           use == read /\ Strip(f.text) # <<>> /\ f.is_subtitle
           td == IF failed THEN <<>>
                 ELSE IF srt THEN parse_srt_content(tts.text)
                 ELSE IF use THEN f.timing_data ELSE <<>>
           sub == srt \/ use
       IN tts' = [tts EXCEPT
                     !.is_srt_format = srt,
                     !.file_read = read,
                     !.text = IF use THEN f.text ELSE @,
                     !.timing_data = td,
                     !.is_subtitle = sub,
                     !.audio_file = IF failed THEN @ ELSE 0,
                     !.pc = IF failed THEN "raised"
                            ELSE IF srt \/ (sub /\ td # <<>>) THEN "overlay" ELSE "plain"]
    /\ UNCHANGED <<others, mst>>

\* lines 178-196: one turn of the loop: the next entry is synthesized into its own file,
\* or the synthesis raises and the call ends with the exception
TtsSynthSegment ==
    /\ tts.pc = "overlay"
    /\ Len(tts.audio_segments) < Len(tts.timing_data)
    /\ LET entry == tts.timing_data[Len(tts.audio_segments) + 1]
           m == Max(tts.max_end_time, entry.end)
       IN \/ \E a \in AudioLens :
                tts' = [tts EXCEPT
                           !.max_end_time = m,
                           !.audio_segments = Append(@, [audio |-> a, start |-> entry.start,
                                                         end |-> entry.end, text |-> entry.text])]
          \/ tts' = [tts EXCEPT !.max_end_time = m, !.pc = "raised"]
    /\ UNCHANGED <<others, mst>>

\* a plausible bug: the segments synthesized so far assembled while others are outstanding
TtsAssemble_early ==
    /\ tts.pc = "overlay"
    /\ Len(tts.audio_segments) <= Len(tts.timing_data)
    /\ LET final == OverlayAll(Silent(tts.max_end_time + BufferMs), tts.audio_segments, 1)
       IN tts' = [tts EXCEPT
                     !.final_audio = final,
                     !.audio_file = final,
                     !.subtitle_file = IF tts.generate_subtitles THEN WriteSrt(tts.timing_data)
                                       ELSE @,
                     !.result = [audio |-> "audio_path",
                                 subtitle |-> IF tts.generate_subtitles THEN "subtitle_path"
                                              ELSE "None",
                                 warning |-> "None"],
                     !.pc = "returned"]
    /\ UNCHANGED <<others, mst>>

\* lines 198-222, 304: silence of max_end_time + 1000 ms, every segment overlaid at its
\* start, the export, the subtitle file if asked for, and the return
TtsAssemble ==
    /\ tts.pc = "overlay"
    /\ Len(tts.audio_segments) = Len(tts.timing_data)
    /\ LET final == OverlayAll(Silent(tts.max_end_time + BufferMs), tts.audio_segments, 1)
       IN tts' = [tts EXCEPT
                     !.final_audio = final,
                     !.audio_file = final,
                     !.subtitle_file = IF tts.generate_subtitles THEN WriteSrt(tts.timing_data)
                                       ELSE @,
                     !.result = [audio |-> "audio_path",
                                 subtitle |-> IF tts.generate_subtitles THEN "subtitle_path"
                                              ELSE "None",
                                 warning |-> "None"],
                     !.pc = "returned"]
    /\ UNCHANGED <<others, mst>>

\* lines 225-227, 304: plain text without subtitles: one synthesis saved to audio_path
TtsPlainSave ==
    /\ tts.pc = "plain"
    /\ ~tts.generate_subtitles
    /\ \/ \E a \in AudioLens :
             tts' = [tts EXCEPT !.audio_file = a, !.pc = "returned",
                        !.result = [audio |-> "audio_path", subtitle |-> "None",
                                    warning |-> "None"]]
       \/ tts' = [tts EXCEPT !.pc = "raised"]
    /\ UNCHANGED <<others, mst>>

\* lines 228-243: plain text with subtitles: the stream is read to its end, audio
\* chunks appended to the file and word boundaries collected, or the stream raises
TtsPlainStream ==
    /\ tts.pc = "plain"
    /\ tts.generate_subtitles
    /\ \/ \E wb \in EventLists(WordKinds, MaxEvents) :
             tts' = [tts EXCEPT !.audio_file = StreamedMs(wb), !.word_boundaries = wb,
                        !.pc = "streamed"]
       \/ \E a \in AudioLens :
             tts' = [tts EXCEPT !.audio_file = a, !.pc = "raised"]
    /\ UNCHANGED <<others, mst>>

\* lines 245-304: the word boundaries grouped into phrases, the subtitle file, the return
TtsPlainSubtitles ==
    /\ tts.pc = "streamed"
    /\ LET ph == segment_phrases(tts.word_boundaries)
       IN tts' = [tts EXCEPT
                     !.phrases = ph,
                     !.subtitle_file = WriteSrt(PhrasesInMs(ph)),
                     !.result = [audio |-> "audio_path", subtitle |-> "subtitle_path",
                                 warning |-> "None"],
                     !.pc = "returned"]
    /\ UNCHANGED <<others, mst>>

NextSingle ==
    \/ TtsRefuse \/ TtsDetect \/ TtsSynthSegment \/ TtsAssemble
    \/ TtsPlainSave \/ TtsPlainStream \/ TtsPlainSubtitles

SpecSingle == InitSingle /\ [][NextSingle]_vars

(***************************************************************************)
(* SpecMulti: one call of multi_speaker_interface and multi_speaker_tts    *)
(***************************************************************************)
MaxSegments == 2
MaxSegEvents == 2

\* the tokens of a multi-speaker segment: a full stop, and a word of no duration
\* after a long pause
MultiKinds == {k \in WordKinds : k.text \in {<<".">>, <<"y", "o">>}}

SpeakerLines ==
    { <<"S", "0", ":", "a">>, <<"S", "1", ":", " ", "a">>, <<"S", "3", ":", "a">> }

MstTexts ==
    {Join(ls, <<NL>>) : ls \in UNION {[1..n -> SpeakerLines] : n \in 1..MaxSegments}}
    \cup {<<" ">>, PlainText}

MstRequest(text, generate_subtitles, speaker1_voice, speaker2_voice) ==
    [pc |-> "request", text |-> text, generate_subtitles |-> generate_subtitles,
     speaker1_voice |-> speaker1_voice, speaker2_voice |-> speaker2_voice,
     speaker_settings |-> <<>>, speaker_segments |-> <<>>,
     resolved |-> <<>>, audio_segments |-> <<>>, subtitle_entries |-> <<>>,
     current_offset |-> 0, boundaries |-> <<>>, segment_phrases |-> <<>>,
     final_audio |-> NoAudio, audio_file |-> NoAudio,
     subtitle_path |-> "None", subtitle_file |-> <<>>, result |-> NoResult]

InitMulti ==
    /\ mst \in {MstRequest(t, g, v1, v2) :
                   t \in MstTexts, g \in BOOLEAN, v1 \in {"", "v"}, v2 \in {"", "w"}}
    /\ TimeOff /\ SrtOff /\ SpkOff /\ TtsOff /\ SegOff

\* lines 517-518, 352-358: no voice selected at all, blank text, or no speaker segment
MstRefuse ==
    /\ mst.pc = "request"
    /\ LET settings == BuildSettings(mst.speaker1_voice, mst.speaker2_voice)
       IN \/ /\ settings = <<>>
             /\ mst' = [mst EXCEPT !.pc = "returned",
                           !.result = [NoResult EXCEPT !.warning =
                               "Please select at least one speaker voice."]]
          \/ /\ settings # <<>>
             /\ Strip(mst.text) = <<>>
             /\ mst' = [mst EXCEPT !.pc = "returned", !.speaker_settings = settings,
                           !.result = [NoResult EXCEPT !.warning =
                               "Please enter text to convert."]]
          \/ /\ settings # <<>>
             /\ Strip(mst.text) # <<>>
             /\ parse_multi_speaker_text(mst.text) = <<>>
             /\ mst' = [mst EXCEPT !.pc = "returned", !.speaker_settings = settings,
                           !.result = [NoResult EXCEPT !.warning =
                               "No valid speaker segments found in the text."]]
    /\ UNCHANGED <<others, tts>>

\* lines 499-515, 356-373: the settings, the parsed segments and the temporary files
MstStart ==
    /\ mst.pc = "request"
    /\ LET settings == BuildSettings(mst.speaker1_voice, mst.speaker2_voice)
           segs == parse_multi_speaker_text(mst.text)
       IN /\ settings # <<>> /\ Strip(mst.text) # <<>> /\ segs # <<>>
          /\ mst' = [mst EXCEPT
                        !.speaker_settings = settings,
                        !.speaker_segments = segs,
                        !.audio_file = 0,
                        !.subtitle_path = IF mst.generate_subtitles THEN "subtitle_path"
                                          ELSE "None",
                        !.pc = "loop"]
    /\ UNCHANGED <<others, tts>>

\* the segment the loop is at, and its resolved slot
MstSegmentNow == mst.speaker_segments[Len(mst.audio_segments) + 1]
MstIdxNow == speaker_idx(MstSegmentNow.speaker, mst.speaker_settings)

\* lines 376-384: the segment's speaker has no usable slot: the call returns the message
MstReject ==
    /\ mst.pc = "loop"
    /\ Len(mst.audio_segments) < Len(mst.speaker_segments)
    /\ no_voice(MstIdxNow, mst.speaker_settings)
    /\ mst' = [mst EXCEPT
                  !.resolved = Append(@, [speaker |-> MstSegmentNow.speaker,
                                          idx |-> MstIdxNow, rejected |-> TRUE]),
                  !.result = RejectResult("final_audio_path", mst.subtitle_path),
                  !.pc = "returned"]
    /\ UNCHANGED <<others, tts>>

\* lines 376-473 with subtitles: the segment is streamed, its word boundaries shifted
\* by current_offset and grouped into phrases, its audio measured, the offset advanced;
\* or the stream or the measurement raises
MstSegmentStreamed ==
    /\ mst.pc = "loop"
    /\ Len(mst.audio_segments) < Len(mst.speaker_segments)
    /\ ~no_voice(MstIdxNow, mst.speaker_settings)
    /\ mst.generate_subtitles
    /\ LET res == [speaker |-> MstSegmentNow.speaker, idx |-> MstIdxNow, rejected |-> FALSE]
       IN \/ \E chunks \in EventLists(MultiKinds, MaxSegEvents), duration \in AudioLens :
                LET wb == [k \in 1..Len(chunks) |-> AdjustChunk(chunks[k], mst.current_offset)]
                    out == IF wb # <<>>
                           THEN MultiSegmentLoop(wb, 1, <<>>, <<>>, <<>>, 0,
                                                 mst.subtitle_entries, MstSegmentNow.speaker)
                           ELSE [phrases |-> <<>>, entries |-> mst.subtitle_entries]
                IN mst' = [mst EXCEPT
                              !.resolved = Append(@, res),
                              !.boundaries = Append(@, wb),
                              !.segment_phrases = Append(@, out.phrases),
                              !.subtitle_entries = out.entries,
                              !.audio_segments = Append(@, [duration |-> duration]),
                              !.current_offset = @ + duration]
          \/ mst' = [mst EXCEPT !.resolved = Append(@, res), !.pc = "raised"]
    /\ UNCHANGED <<others, tts>>

\* lines 376-396, 458-473 without subtitles: the segment is saved, measured, and the
\* offset advanced; or the synthesis raises
MstSegmentSaved ==
    /\ mst.pc = "loop"
    /\ Len(mst.audio_segments) < Len(mst.speaker_segments)
    /\ ~no_voice(MstIdxNow, mst.speaker_settings)
    /\ ~mst.generate_subtitles
    /\ LET res == [speaker |-> MstSegmentNow.speaker, idx |-> MstIdxNow, rejected |-> FALSE]
       IN \/ \E duration \in AudioLens :
                mst' = [mst EXCEPT
                           !.resolved = Append(@, res),
                           !.audio_segments = Append(@, [duration |-> duration]),
                           !.current_offset = @ + duration]
          \/ mst' = [mst EXCEPT !.resolved = Append(@, res), !.pc = "raised"]
    /\ UNCHANGED <<others, tts>>

\* lines 475-493: the segments concatenated and exported, the subtitle file written
\* from subtitle_entries, and the return
MstAssemble ==
    /\ mst.pc = "loop"
    /\ Len(mst.audio_segments) = Len(mst.speaker_segments)
    /\ mst' = [mst EXCEPT
                  !.final_audio = Combined(mst.audio_segments),
                  !.audio_file = Combined(mst.audio_segments),
                  !.subtitle_file = IF mst.generate_subtitles /\ mst.subtitle_path # "None"
                                    THEN WriteSrt(PhrasesInMs(mst.subtitle_entries))
                                    ELSE @,
                  !.result = [audio |-> "final_audio_path", subtitle |-> mst.subtitle_path,
                              warning |-> "None"],
                  !.pc = "returned"]
    /\ UNCHANGED <<others, tts>>

NextMulti ==
    \/ MstRefuse \/ MstStart \/ MstReject \/ MstSegmentStreamed \/ MstSegmentSaved
    \/ MstAssemble

SpecMulti == InitMulti /\ [][NextMulti]_vars

(***************************************************************************)
(* SpecTts: one conversion request, through either handler                 *)
(***************************************************************************)
InitTts == InitSingle \/ InitMulti

NextTts == NextSingle \/ NextMulti

SpecTts == InitTts /\ [][NextTts]_vars

(***************************************************************************)
(* SpecSegment: both copies of the phrase segmenter on the same events     *)
(*                                                                         *)
(* Offsets and durations are whole multiples of 1250 ticks (1/8 ms): on    *)
(* these the float milliseconds of the code (offset / 10000, their sums    *)
(* and differences) are exact, and so are the integer ticks kept here.     *)
(***************************************************************************)
MaxWords == 6

\* a word right after the one before; a full stop; a word after a pause of exactly
\* 300 ms; a word of no duration after a pause of 300.125 ms
SegKinds ==
    { [text |-> <<"H", "i">>, gap |-> 0, duration |-> 1000000],
      [text |-> <<".">>, gap |-> 0, duration |-> 1000000],
      [text |-> <<"o", "k">>, gap |-> 3000000, duration |-> 1000000],
      [text |-> <<"y", "o">>, gap |-> 3001250, duration |-> 0] }

\* segment['speaker'] of the segment the multi-speaker copy runs in
SegSpeaker == <<"S", "1">>

InitSegment ==
    /\ gpc = "events" /\ events \in EventLists(SegKinds, MaxWords)
    /\ single_phrases = <<>> /\ multi_phrases = <<>>
    /\ TimeOff /\ SrtOff /\ SpkOff /\ TtsOff /\ MstOff

\* lines 246-294: the copy in text_to_speech
SegmentSingle ==
    /\ gpc = "events"
    /\ single_phrases' = segment_phrases(events)
    /\ gpc' = "single"
    /\ UNCHANGED <<events, multi_phrases, timeVars, srtVars, spkVars, tts, mst>>

\* lines 411-457: the copy in multi_speaker_tts, run only on a non-empty list
SegmentMulti ==
    /\ gpc = "single"
    /\ multi_phrases' =
           IF events # <<>>
           THEN MultiSegmentLoop(events, 1, <<>>, <<>>, <<>>, 0, <<>>, SegSpeaker).phrases
           ELSE <<>>
    /\ gpc' = "both"
    /\ UNCHANGED <<events, single_phrases, timeVars, srtVars, spkVars, tts, mst>>

NextSegment == SegmentSingle \/ SegmentMulti

SpecSegment == InitSegment /\ [][NextSegment]_vars

(***************************************************************************)
(* Properties of the conversions                                           *)
(***************************************************************************)
SeqRange(q) == {q[k] : k \in 1..Len(q)}

NotSpace(c) == ~IsSpace(c)

\* a text with its white space taken out
Despace(t) == SelectSeq(t, NotSpace)

Tokens(wb) == [k \in 1..Len(wb) |-> wb[k].text]

Texts(cues) == [k \in 1..Len(cues) |-> cues[k].text]

\* the greatest end of a non-empty cue list
MaxEnd(cues) == CHOOSE e \in {c.end : c \in SeqRange(cues)} : \A c \in SeqRange(cues) : c.end <= e

\* the sum of the measured durations of the first n segments
RECURSIVE SumDurations(_, _)
SumDurations(audio_segments, n) ==
    IF n = 0 THEN 0 ELSE SumDurations(audio_segments, n - 1) + audio_segments[n].duration

\* the call of text_to_speech has returned from the plain path with subtitles
TtsPlainDone ==
    /\ tts.pc = "returned" /\ tts.result.warning = "None"
    /\ tts.generate_subtitles
    /\ ~(tts.is_srt_format \/ (tts.is_subtitle /\ tts.timing_data # <<>>))

\* the call of text_to_speech has returned from the overlay path
TtsOverlayDone ==
    /\ tts.pc = "returned" /\ tts.result.warning = "None"
    /\ (tts.is_srt_format \/ (tts.is_subtitle /\ tts.timing_data # <<>>))

\* the call of multi_speaker_tts has returned its artifacts, subtitles asked for
MstSubtitlesDone ==
    mst.pc = "returned" /\ mst.result.warning = "None" /\ mst.generate_subtitles

\* C3: in multi-speaker mode with subtitles the written cue list is the concatenation,
\* in segment order, of each segment's phrase cues: every phrase closed by the
\* segmenter appears exactly once, in the order it was closed.
C3_EntriesAreConcatenation ==
    MstSubtitlesDone =>
        /\ mst.subtitle_entries = Concat(mst.segment_phrases)
        /\ mst.subtitle_file = WriteSrt(PhrasesInMs(Concat(mst.segment_phrases)))

\* every cue either handler has emitted from word boundaries
EmittedCues ==
    (IF tts.pc = "off" THEN {} ELSE SeqRange(tts.phrases))
    \cup (IF mst.pc = "off" THEN {} ELSE SeqRange(mst.subtitle_entries))

\* every word boundary the segmenters were given (shifted, in multi-speaker mode)
GivenBoundaries ==
    (IF tts.pc = "off" THEN {} ELSE SeqRange(tts.word_boundaries))
    \cup (IF mst.pc = "off" THEN {} ELSE UNION {SeqRange(wb) : wb \in SeqRange(mst.boundaries)})

RECURSIVE Partitions(_, _)
Partitions(wb, cues) ==
    IF cues = <<>> THEN wb = <<>>
    ELSE \E m \in 1..Len(wb) :
            /\ Despace(Concat(Tokens(SubSeq(wb, 1, m)))) = Despace(cues[1].text)
            /\ cues[1].start = wb[1].offset
            /\ cues[1].end = wb[m].offset + wb[m].duration
            /\ Partitions(SubSeq(wb, m + 1, Len(wb)), Tail(cues))

\* C5: the cues of the single-speaker segmenter partition the events: every token goes
\* into exactly one cue, cues come in event order, the cue texts concatenated in order
\* are the tokens concatenated in order (spacing aside); no event gives no cue.
C5_CuesPartitionEvents ==
    TtsPlainDone =>
        /\ Partitions(tts.word_boundaries, tts.phrases)
        /\ Despace(Concat(Texts(tts.phrases))) = Despace(Concat(Tokens(tts.word_boundaries)))
        /\ tts.word_boundaries = <<>> => (tts.phrases = <<>> /\ tts.subtitle_file = <<>>)

\* more than five events were segmented into several cues, the first cue closed by the
\* five-word rule and holding a token that starts with punctuation
C5_Witness ==
    /\ TtsPlainDone
    /\ Len(tts.word_boundaries) > MaxPhraseWords
    /\ Len(tts.phrases) >= 2
    /\ tts.phrases[1].text = <<"H", "i", ",", "x", " ", "H", "i", " ", "H", "i", " ", "H", "i">>
    /\ Partitions(SubSeq(tts.word_boundaries, 1, MaxPhraseWords), <<tts.phrases[1]>>)

\* C6: with measured durations d1..dn, every cue emitted for segment k starts at or
\* after d1 + ... + d(k-1) ms; and the subtitle entries are cues of the segments.
C6_CuesAfterOffset ==
    mst.pc # "off" =>
        /\ \A k \in 1..Len(mst.segment_phrases) :
               \A c \in SeqRange(mst.segment_phrases[k]) :
                   /\ c.start >= SumDurations(mst.audio_segments, k - 1) * TicksPerMs
                   /\ c.start \div TicksPerMs >= SumDurations(mst.audio_segments, k - 1)
        /\ \A c \in SeqRange(mst.subtitle_entries) :
               \E k \in 1..Len(mst.segment_phrases) : c \in SeqRange(mst.segment_phrases[k])

\* a second segment, after a first of positive measured duration, has emitted a cue
C6_Witness ==
    /\ MstSubtitlesDone
    /\ Len(mst.segment_phrases) >= 2
    /\ mst.audio_segments[1].duration > 0
    /\ mst.segment_phrases[2] # <<>>
    /\ mst.segment_phrases[2][1] \in SeqRange(mst.subtitle_entries)

\* C7: the assembled buffer of the overlay path is max(cue.end) + 1000 ms long, however
\* many segments there are, however they overlap and however long their audio is
\* (with no cue at all the loop leaves max_end_time at 0 and the buffer is 1000 ms).
C7_OverlayDuration ==
    TtsOverlayDone =>
        /\ tts.final_audio =
               (IF tts.timing_data = <<>> THEN 0 ELSE MaxEnd(tts.timing_data)) + BufferMs
        /\ tts.audio_file = tts.final_audio

\* two overlapping cues, the greatest end not the last one, one segment's audio running
\* past the end of the buffer
C7_Witness ==
    /\ TtsOverlayDone
    /\ Len(tts.timing_data) = 2
    /\ tts.timing_data[1].end > tts.timing_data[2].end
    /\ tts.timing_data[2].start < tts.timing_data[1].end
    /\ \E g \in SeqRange(tts.audio_segments) : g.start + g.audio > tts.final_audio

\* C9 as stated: the resolved slot index is never negative and never >= slotCount, and
\* a speaker is rejected only when the voice of the resolved slot is missing or empty.
C9_SlotAlwaysValid ==
    mst.pc # "off" =>
        \A r \in SeqRange(mst.resolved) :
            IF r.idx >= 0 /\ r.idx < Len(mst.speaker_settings)
            THEN r.rejected => mst.speaker_settings[r.idx + 1].voice = ""
            ELSE FALSE

\* C9 as amended: for a speaker number of 1 or more the index is min(number - 1,
\* slotCount - 1), within 0..slotCount-1, and the speaker is rejected only when that
\* slot's voice is empty; for the number 0 the index is -1, it is not clamped, and the
\* speaker is rejected whatever the voices are.
C9_SlotResolution ==
    mst.pc # "off" =>
        \A r \in SeqRange(mst.resolved) :
            LET num == speaker_num(r.speaker)
                n == Len(mst.speaker_settings)
            IN IF num >= 1
               THEN /\ r.idx >= 0 /\ r.idx < n
                    /\ (num <= n => r.idx = num - 1)
                    /\ (num > n => r.idx = n - 1)
                    /\ r.rejected <=> mst.speaker_settings[r.idx + 1].voice = ""
               ELSE r.idx = 0 - 1 /\ r.rejected

\* a speaker numbered above the slot count was synthesized with the last slot, and
\* after it a speaker numbered 0 was rejected
C9_Witness ==
    /\ mst.pc = "returned"
    /\ Len(mst.resolved) = 2
    /\ speaker_num(mst.resolved[1].speaker) > Len(mst.speaker_settings)
    /\ mst.resolved[1].idx = Len(mst.speaker_settings) - 1
    /\ ~mst.resolved[1].rejected
    /\ speaker_num(mst.resolved[2].speaker) = 0
    /\ mst.resolved[2].rejected

\* a conversion has ended in a failure: with an exception, or with a message
TtsFailed == tts.pc = "raised" \/ (tts.pc = "returned" /\ tts.result.warning # "None")
MstFailed == mst.pc = "raised" \/ (mst.pc = "returned" /\ mst.result.warning # "None")

\* C10: a conversion that ends in a failure at any segment returns no audio artifact
\* and no subtitle artifact, however many segments were synthesized before.
C10_NoPartialArtifact ==
    /\ TtsFailed => (tts.result.audio = "None" /\ tts.result.subtitle = "None")
    /\ MstFailed => (mst.result.audio = "None" /\ mst.result.subtitle = "None")

\* multi_speaker_tts was refused a voice at its second segment, the first synthesized
\* and the temporary audio and subtitle files already created
C10_Witness ==
    /\ mst.pc = "returned" /\ mst.result.warning = "No voice selected"
    /\ Len(mst.audio_segments) = 1
    /\ mst.audio_file # NoAudio /\ mst.subtitle_path # "None"

\* the uploaded file of the request is subtitle-shaped: by its extension or its content
FileShaped(file) == file.present /\ (file.ext = ".srt" \/ is_srt_format(file.content))

\* one step of format detection, from the request to the path chosen
C12_Step ==
    (tts.pc = "request" /\ tts'.pc \in {"overlay", "plain", "raised"}) =>
        LET file == tts.uploaded_file
        IN /\ is_srt_format(tts.text) =>
                  /\ tts'.pc = "overlay"
                  /\ ~tts'.file_read
                  /\ tts'.text = tts.text
                  /\ tts'.timing_data = parse_srt_content(tts.text)
           /\ tts'.file_read => ~is_srt_format(tts.text)
           /\ (tts'.text # tts.text \/ (tts'.pc = "overlay" /\ ~is_srt_format(tts.text))) =>
                  /\ ~is_srt_format(tts.text)
                  /\ FileShaped(file)
                  /\ tts'.pc = "overlay"
                  /\ tts'.timing_data = parse_srt_content(file.content)
                  /\ tts'.text = parse_srt_text(file.content)

\* C12: when the inline text is subtitle-shaped, text_to_speech takes the overlay path
\* with the cues parsed from the inline text, and an uploaded file of the same request
\* is not read and changes neither the cues nor the text; the cues of the uploaded file
\* are used only when the inline text is not subtitle-shaped and the file is.
C12_InlineWins == [][C12_Step]_vars

\* a request whose inline text and uploaded file are both subtitle-shaped, with
\* different cues, was converted on the overlay path from the inline cues, the file unread
C12_Witness ==
    /\ TtsOverlayDone
    /\ is_srt_format(tts.text)
    /\ FileShaped(tts.uploaded_file) /\ is_srt_format(tts.uploaded_file.content)
    /\ ~tts.file_read
    /\ tts.timing_data = parse_srt_content(tts.text)
    /\ tts.timing_data # parse_srt_content(tts.uploaded_file.content)
    /\ Len(tts.audio_segments) = Len(tts.timing_data)

\* C13: a text the detector classifies as subtitle-shaped gives at least one cue when
\* parse_srt_content parses it, so the overlay path never runs with an empty cue list.
C13_DetectedHasCues ==
    (tts.pc \in {"overlay", "returned"} /\ tts.is_srt_format) =>
        /\ parse_srt_content(tts.text) # <<>>
        /\ tts.timing_data # <<>>

\* the text accumulated over events first..i of wb
RECURSIVE C15_Text(_, _, _)
C15_Text(wb, first, i) ==
    IF i < first THEN <<>> ELSE AppendWord(C15_Text(wb, first, i - 1), wb[i].text)

\* the rules in order, after event i is appended to a phrase that then holds n events:
\* rule 1, rule 2, rule 3 with the threshold given in ticks
C15_Closes(wb, i, n, threshold) ==
    \/ wb[i].text[Len(wb[i].text)] \in {".", "!", "?", ":", ";", ","}
    \/ i = Len(wb)
    \/ n >= 5
    \/ (i < Len(wb) /\ wb[i + 1].offset - (wb[i].offset + wb[i].duration) > threshold)

\* the cues of the rule chain from event i on, the open phrase starting at event first
RECURSIVE C15_Chain(_, _, _, _)
C15_Chain(wb, i, first, threshold) ==
    IF i > Len(wb) THEN <<>>
    ELSE IF C15_Closes(wb, i, i - first + 1, threshold)
         THEN <<[text |-> Strip(C15_Text(wb, first, i)), start |-> wb[first].offset,
                 end |-> wb[i].offset + wb[i].duration]>>
              \o C15_Chain(wb, i + 1, i + 1, threshold)
         ELSE C15_Chain(wb, i + 1, first, threshold)

\* the cues of the multi-speaker copy without their "[speaker] " label
C15_Unlabelled ==
    [k \in 1..Len(multi_phrases) |->
        [multi_phrases[k] EXCEPT !.text = SubSeq(@, Len(SegSpeaker) + 4, Len(@))]]

\* C15 as stated: both copies close a phrase after event i iff the token ends with
\* . ! ? : ; , or i is the last event, or the phrase holds 5 events or more, or the gap
\* to the next event exceeds 300 units of the unit the offsets come in.
C15_GapInOffsetUnits ==
    gpc = "both" =>
        /\ single_phrases = C15_Chain(events, 1, 1, 300)
        /\ C15_Unlabelled = single_phrases

\* C15 as amended: the same rule chain with the gap compared in milliseconds: rule 3
\* closes the phrase iff the gap exceeds 300 ms, which is 3,000,000 of the 100 ns units
\* of the offsets; both copies decide alike and differ only in the label of the text.
C15_GapInMilliseconds ==
    gpc = "both" =>
        /\ single_phrases = C15_Chain(events, 1, 1, 300 * 10000)
        /\ C15_Unlabelled = single_phrases
        /\ \A k \in 1..Len(multi_phrases) :
               SubSeq(multi_phrases[k].text, 1, Len(SegSpeaker) + 3)
                   = <<"[">> \o SegSpeaker \o <<"]", " ">>

\* both copies kept a pause of exactly 300 ms inside a phrase and closed that phrase at
\* a pause of 300.125 ms; the second phrase was closed by the last of six events
C15_Witness ==
    /\ gpc = "both"
    /\ Len(single_phrases) = 2
    /\ single_phrases[1].text = <<"H", "i", " ", "o", "k">>
    /\ multi_phrases[1].text = <<"[", "S", "1", "]", " ", "H", "i", " ", "o", "k">>
    /\ events[3].offset - single_phrases[1].end > 300 * 10000
    /\ events[2].offset - (events[1].offset + events[1].duration) = 300 * 10000
    /\ Len(events) = 6

\* one step of text_to_speech: the overlay buffer is created only once every cue has its
\* synthesized segment, cue by cue in order; segments are added one at a time
C16_OverlayStep ==
    tts.pc # "off" =>
        /\ (tts.final_audio = NoAudio /\ tts'.final_audio # NoAudio) =>
               /\ Len(tts.audio_segments) = Len(tts.timing_data)
               /\ tts'.audio_segments = tts.audio_segments
               /\ \A k \in 1..Len(tts.timing_data) :
                      /\ tts.audio_segments[k].text = tts.timing_data[k].text
                      /\ tts.audio_segments[k].start = tts.timing_data[k].start
        /\ tts'.audio_segments # tts.audio_segments =>
               /\ Len(tts'.audio_segments) = Len(tts.audio_segments) + 1
               /\ SubSeq(tts'.audio_segments, 1, Len(tts.audio_segments)) = tts.audio_segments
               /\ tts.final_audio = NoAudio

\* one step of multi_speaker_tts: the segments are concatenated only once every speaker
\* segment is synthesized and measured; segment k is synthesized after segments 1..k-1,
\* in document order, and shifted by the sum of their measured durations
C16_SequentialStep ==
    mst.pc # "off" =>
        LET n == Len(mst.audio_segments)
        IN /\ (mst.final_audio = NoAudio /\ mst'.final_audio # NoAudio) =>
                  /\ n = Len(mst.speaker_segments)
                  /\ mst'.audio_segments = mst.audio_segments
                  /\ mst'.final_audio = SumDurations(mst.audio_segments, n)
           /\ mst'.audio_segments # mst.audio_segments =>
                  /\ Len(mst'.audio_segments) = n + 1
                  /\ SubSeq(mst'.audio_segments, 1, n) = mst.audio_segments
                  /\ mst.final_audio = NoAudio
                  /\ Len(mst.resolved) = n
                  /\ mst'.resolved[n + 1].speaker = mst.speaker_segments[n + 1].speaker
                  /\ mst.current_offset = SumDurations(mst.audio_segments, n)
                  /\ mst'.current_offset = SumDurations(mst'.audio_segments, n + 1)
                  /\ mst.generate_subtitles =>
                         /\ Len(mst'.boundaries) = n + 1
                         /\ \A b \in SeqRange(mst'.boundaries[n + 1]) :
                                b.offset >= SumDurations(mst.audio_segments, n) * TicksPerMs

\* C16: within one conversion, assembly (the silence and the overlays, or the
\* concatenation) does not begin before every segment of the request is synthesized;
\* in multi-speaker mode the segments are synthesized in document order, and the offset
\* of segment k is the sum of the measured durations of segments 1..k-1.
C16_AssemblyAfterSynthesis == [][C16_OverlayStep /\ C16_SequentialStep]_vars

\* two speaker segments were synthesized one after the other, the second shifted by the
\* measured duration of the first, and only then concatenated
C16_Witness ==
    /\ mst.pc = "returned" /\ mst.final_audio # NoAudio
    /\ Len(mst.audio_segments) = 2 /\ Len(mst.speaker_segments) = 2
    /\ mst.final_audio = mst.audio_segments[1].duration + mst.audio_segments[2].duration
    /\ mst.generate_subtitles
    /\ mst.boundaries[2] # <<>>
    /\ mst.boundaries[2][1].offset = mst.audio_segments[1].duration * TicksPerMs

====
